---------------------------- MODULE Spec2Model ----------------------------
(***************************************************************************)
(* A model of the FAISS-backed retrieval engine of src/rag.py: the         *)
(* character chunker (chunk_text), the SQLite content store                *)
(* (DocumentStore), the vector index and its persisted file                *)
(* (FaissVectorStore) and the engine that ties them together (FaissRAG).   *)
(*                                                                         *)
(* Texts are sequences of one-character strings.  Python indices are       *)
(* 0-based and slices are half open; Slice translates them.                *)
(***************************************************************************)
EXTENDS Integers, Sequences, FiniteSets, TLC

(***************************************************************************)
(* Bounds of the model.                                                    *)
(***************************************************************************)
\* longest text handed to chunk_text in the chunker specification
MaxTextLen == 6
\* largest chunk size handed to chunk_text in the chunker specification
MaxSize == 4

Alphabet == {"a", "b"}

Min(a, b) == IF a <= b THEN a ELSE b
Max(a, b) == IF a >= b THEN a ELSE b

\* ceil(a / b) for b > 0 and any integer a
CeilDiv(a, b) == -((-a) \div b)

\* All sequences over S of length at most n
SeqsUpTo(S, n) == UNION {[1..m -> S] : m \in 0..n}

(***************************************************************************)
(* chunk_text (src/rag.py:71-85)                                           *)
(***************************************************************************)

\* A plausible slip: the slice's end is taken as inclusive of one too few
Slice_short(text, start, end) ==
    SubSeq(text, Min(start, Len(text)) + 1, Min(end - 1, Len(text)))

\* Python's text[start:end] for 0 <= start, 0 <= end: clamped to the text
Slice(text, start, end) ==
    SubSeq(text, Min(start, Len(text)) + 1, Min(end, Len(text)))

\* A plausible slip: the window advances by size, dropping the overlap
RECURSIVE chunk_loop_no_overlap(_, _, _, _, _)
chunk_loop_no_overlap(text, size, overlap, start, chunks) ==
    IF start < Len(text)
    THEN chunk_loop_no_overlap(text, size, overlap, start + size,
                    Append(chunks, Slice(text, start, start + size)))
    ELSE chunks

\* the while loop of chunk_text: lines 80-85
RECURSIVE chunk_loop(_, _, _, _, _)
chunk_loop(text, size, overlap, start, chunks) ==
    IF start < Len(text)
    THEN chunk_loop(text, size, overlap, start + size - overlap,
                    Append(chunks, Slice(text, start, start + size)))
    ELSE chunks

chunk_text(text, size, overlap) ==
    IF text = <<>> THEN <<>> ELSE chunk_loop(text, size, overlap, 0, <<>>)

(***************************************************************************)
(* Python values.  A dict is a function from its keys; an Optional[Dict]   *)
(* argument is a sequence of length at most one (<<>> is None).            *)
(***************************************************************************)
EmptyDict == [k \in {} |-> 0]
None == <<>>
Some(x) == <<x>>

\* the Python type of the value held under each metadata key of the model
KeyType ==
    [subject |-> "str", filename |-> "str", source_path |-> "str",
     chunk_index |-> "int", tags |-> "set"]

\* the order in which json.dumps writes the keys of the model's dicts
KeyOrder == <<"subject", "source_path", "filename", "chunk_index", "tags">>

\* dict d with d[k] = v (the assignment d[k] = v)
DictSet(d, k, v) ==
    [x \in (DOMAIN d) \cup {k} |-> IF x = k THEN v ELSE d[x]]

\* d.get(k, default)
DictGet(d, k, default) == IF k \in DOMAIN d THEN d[k] ELSE default

\* json.dumps raises TypeError on a value that is no JSON type
JsonSerializable(d) == \A k \in DOMAIN d : KeyType[k] \in {"str", "int"}

\* json.dumps(d): the serialized mapping, a sequence of <<key, value>> pairs
RECURSIVE JsonPairs(_, _)
JsonPairs(d, i) ==
    IF i > Len(KeyOrder) THEN <<>>
    ELSE (IF KeyOrder[i] \in DOMAIN d
          THEN << <<KeyOrder[i], d[KeyOrder[i]]>> >> ELSE <<>>)
         \o JsonPairs(d, i + 1)

JsonDumps(d) == JsonPairs(d, 1)

\* json.loads(s): the mapping of a serialized sequence of pairs
JsonLoads(s) ==
    [k \in {s[i][1] : i \in DOMAIN s} |->
        s[CHOOSE i \in DOMAIN s : s[i][1] = k][2]]

\* str.lower() on the subject strings of the model
Lower(str) ==
    CASE str = "Art" -> "art"
      [] str = "ART" -> "art"
      [] str = "Bio" -> "bio"
      [] OTHER -> str

(***************************************************************************)
(* DocumentStore (src/rag.py:89-199).  documents and docs_fts are the two  *)
(* tables of the persisted SQLite database, in rowid order.                *)
(***************************************************************************)
\* most rows the database holds in a run of the engine specification
MaxDocs == 5
\* most rows the database holds in a run of the store specification
MaxAdds == 3
\* most times the store specification opens the database
MaxOpens == 3

Ids(rows) == {rows[i].id : i \in DOMAIN rows}

MaxId(rows) ==
    CHOOSE m \in Ids(rows) : \A x \in Ids(rows) : x <= m

\* A plausible slip: the new rowid repeats the largest one
NextRowid_stale(rows) == IF rows = <<>> THEN 1 ELSE MaxId(rows)

\* the rowid SQLite gives a row inserted into an INTEGER PRIMARY KEY table
\* without AUTOINCREMENT: one more than the largest rowid in the table
NextRowid(rows) == IF rows = <<>> THEN 1 ELSE MaxId(rows) + 1

\* metadata or {}
MetaArg(metadata) ==
    IF metadata = None \/ DOMAIN metadata[1] = {} THEN EmptyDict
    ELSE metadata[1]

\* DocumentStore.add raises (json.dumps, line 118) before any insert
AddRaises(metadata) == ~JsonSerializable(MetaArg(metadata))

\* the row both INSERTs of DocumentStore.add write, committed together
AddRow(rows, content, metadata) ==
    [id |-> NextRowid(rows), content |-> content,
     metadata |-> JsonDumps(MetaArg(metadata))]

\* DocumentStore.get: None, or the row with its metadata parsed
DocGet(rows, doc_id) ==
    IF doc_id \notin Ids(rows) THEN None
    ELSE LET r == rows[CHOOSE i \in DOMAIN rows : rows[i].id = doc_id]
         IN  Some([id |-> r.id, content |-> r.content,
                   metadata |-> JsonLoads(r.metadata)])

(***************************************************************************)
(* Extractor (src/rag.py:254-305) and the files of the model.              *)
(***************************************************************************)
Paths == {"a.txt", "x.bin"}

\* os.path.splitext(path)[1].lower()
Ext(path) ==
    CASE path = "a.txt" -> ".txt"
      [] path = "x.bin" -> ".bin"
      [] OTHER -> ""

\* os.path.basename(path): the model's paths have no directory part
Basename(path) == path

\* what the file at path holds
FileText(path) ==
    CASE path = "a.txt" -> <<"a", "b", "a">>
      [] OTHER -> <<>>

\* Extractor.from_file: the text, or the exception raised.  The model has no
\* .pdf, .docx or .pptx file.
from_file(path) ==
    IF Ext(path) \in {".txt", ".md"}
    THEN [ok |-> TRUE, text |-> FileText(path), error |-> ""]
    ELSE [ok |-> FALSE, text |-> <<>>, error |-> "ValueError"]

(***************************************************************************)
(* Embedder and normalize_embeddings (src/rag.py:65-69, 378-383).  Vectors *)
(* are pairs of integers; a unit vector has Euclidean norm Unit, so an     *)
(* inner product of two unit vectors is a cosine scaled by Unit * Unit.    *)
(***************************************************************************)
Unit == 5

\* SentenceTransformer.encode on the texts of the model: a fixed,
\* deterministic embedder, not normalized
Embed(text) ==
    CASE text = <<"a">> -> <<6, 8>>
      [] text = <<"b">> -> <<-10, 0>>
      [] text = <<"a", "b", "a">> -> <<4, 3>>
      [] text = <<"a", "b">> -> <<3, -4>>
      [] OTHER -> <<0, 5>>

\* np.linalg.norm of one row (the model's vectors have integer norms)
Norm(v) ==
    CHOOSE n \in 0..(v[1] * v[1] + v[2] * v[2]) :
        n * n = v[1] * v[1] + v[2] * v[2]

\* normalize_embeddings on one row: a zero norm is replaced by 1
normalize_embeddings(v) ==
    LET n == IF Norm(v) = 0 THEN 1 ELSE Norm(v)
    IN  <<(v[1] * Unit) \div n, (v[2] * Unit) \div n>>

\* inner product (IndexFlatIP)
Dot(u, v) == u[1] * v[1] + u[2] * v[2]

(***************************************************************************)
(* FaissVectorStore (src/rag.py:204-249).  An index is the sequence of its *)
(* <<id, vector>> entries in the order they were added; the index file is  *)
(* absent, corrupt (unreadable), a readable index that is no IndexIDMap    *)
(* ("flat"), or a saved IndexIDMap.                                        *)
(***************************************************************************)
AbsentFile == [kind |-> "absent", entries |-> <<>>]
CorruptFile == [kind |-> "corrupt", entries |-> <<>>]
FlatFile == [kind |-> "flat", entries |-> <<>>]

\* A plausible slip: the file is written without the newest entry
WrittenFile_truncated(ix) ==
    [kind |-> "idmap", entries |-> SubSeq(ix, 1, Len(ix) - 1)]

\* faiss.write_index(self.index, path)
WrittenFile(ix) == [kind |-> "idmap", entries |-> ix]

LoadFailed == "Failed to load existing index"

\* A plausible slip: the engine never loads the index file
InitIndex_fresh(file) == [index |-> <<>>, printed |-> {}]

\* FaissVectorStore._init_index: the index the engine starts with and what
\* it prints
InitIndex(file) ==
    IF file.kind = "absent" THEN [index |-> <<>>, printed |-> {}]
    ELSE IF file.kind = "idmap"
         THEN [index |-> file.entries, printed |-> {}]
         ELSE [index |-> <<>>, printed |-> {LoadFailed}]

IndexIds(ix) == {ix[i].id : i \in DOMAIN ix}

\* how many entries of the index carry doc_id
Count(ix, doc_id) == Cardinality({i \in DOMAIN ix : ix[i].id = doc_id})

(***************************************************************************)
(* FaissRAG ingestion (src/rag.py:326-376).                                *)
(***************************************************************************)
\* chunk_text's default size (500 in the source), scaled down
ChunkSize == 3
\* chunk_text's default overlap (50 in the source), scaled down
ChunkOverlap == 1
\* FaissRAG's default batch_size (64 in the source), scaled down
BatchSize == 2
\* longest list of paths handed to add_files
MaxPaths == 3

Callers == {"c1", "c2"}
\* the callers of the serialized specification
SerialCallers == {"c1"}

Texts == {<<>>, <<"a", "b", "a", "b", "a">>}

EngineMetas == {None, Some([tags |-> "set()"])}

\* metadata.copy() if metadata else {}
CopyOrEmpty(metadata) ==
    IF metadata = None \/ DOMAIN metadata[1] = {} THEN EmptyDict
    ELSE metadata[1]

\* base_meta of add_files: lines 337-340
BaseMeta(metadata, path) ==
    LET m == DictSet(CopyOrEmpty(metadata), "source_path", path)
    IN  IF "filename" \in DOMAIN m THEN m
        ELSE DictSet(m, "filename", Basename(path))

\* A plausible slip: the positions of the batch are used as ids (add
\* instead of add_with_ids)
BatchEntries_positions(rows, batch) ==
    [j \in 1..Len(batch) |->
        [id |-> j - 1,
         vec |-> normalize_embeddings(
                     Embed(DocGet(rows, batch[j])[1].content))]]

\* one batch of _index_new_docs: the entries handed to vstore.add
BatchEntries(rows, batch) ==
    [j \in 1..Len(batch) |->
        [id |-> batch[j],
         vec |-> normalize_embeddings(
                     Embed(DocGet(rows, batch[j])[1].content))]]

\* batches[n] of _index_new_docs (n counted from 0)
Batch(ids, n) ==
    SubSeq(ids, n * BatchSize + 1, Min((n + 1) * BatchSize, Len(ids)))

\* A plausible slip: a last batch shorter than batch_size is dropped
NumBatches_floor(ids) == Len(ids) \div BatchSize

\* len(batches) of _index_new_docs
NumBatches(ids) == CeilDiv(Len(ids), BatchSize)

IdleCall ==
    [pc |-> "idle", op |-> "", arg_paths |-> <<>>, arg_text |-> <<>>,
     metadata |-> None, paths |-> <<>>, base_meta |-> EmptyDict,
     chunks |-> <<>>, i |-> 0, ids |-> <<>>, batches_done |-> 0,
     snapshot |-> <<>>, error |-> ""]

\* positions of a call at which it is not running
Rest == {"idle", "returned", "raised"}

\* A plausible slip: an extraction error aborts the whole call
OnExtractError_abort(cl) ==
    [cl EXCEPT !.pc = "raised", !.error = "ValueError"]

\* the except branch of add_files (lines 331-333): skip the file
OnExtractError(cl) == [cl EXCEPT !.paths = Tail(cl.paths)]

\* rows a call would add when nothing fails
RECURSIVE NewRows(_)
NewRows(paths) ==
    IF paths = <<>> THEN 0
    ELSE (IF from_file(paths[1]).ok
          THEN Len(chunk_text(from_file(paths[1]).text, ChunkSize, ChunkOverlap))
          ELSE 0) + NewRows(Tail(paths))

(***************************************************************************)
(* Search (src/rag.py:133-146, 232-235, 393-468).  Scores are exact: an    *)
(* inner product is an integer (a cosine scaled by Unit * Unit), a hybrid  *)
(* score is scaled by HybridScale.                                         *)
(***************************************************************************)
\* largest k handed to a search
MaxK == 2

RECURSIVE Fact(_)
Fact(n) == IF n <= 1 THEN 1 ELSE n * Fact(n - 1)

\* keyword scores 1 / (1 + rank), rank < MaxK, as integers over KwScale
KwScale == Fact(MaxK)

\* alpha is AlphaNum / AlphaDen
AlphaDen == 2

\* a score of 1.0 on the scale of the final scores
HybridScale == AlphaDen * Unit * Unit * KwScale

RECURSIVE Reverse(_)
Reverse(seq) ==
    IF seq = <<>> THEN <<>> ELSE Append(Reverse(Tail(seq)), Head(seq))

\* x put behind every element of sorted whose score is at least its own
RECURSIVE InsertDesc(_, _)
InsertDesc(sorted, x) ==
    IF sorted = <<>> THEN <<x>>
    ELSE IF Head(sorted).score >= x.score
         THEN <<Head(sorted)>> \o InsertDesc(Tail(sorted), x)
         ELSE <<x>> \o sorted

\* A plausible slip: the sort is ascending (reverse=True forgotten)
RECURSIVE SortDesc_ascending(_)
SortDesc_ascending(seq) ==
    IF seq = <<>> THEN <<>>
    ELSE LET rest == SortDesc_ascending(SubSeq(seq, 1, Len(seq) - 1))
             x == seq[Len(seq)]
             keep == SelectSeq(rest, LAMBDA y : y.score <= x.score)
             move == SelectSeq(rest, LAMBDA y : y.score > x.score)
         IN  keep \o <<x>> \o move

\* sorted(seq, key=score, reverse=True): descending and stable
RECURSIVE SortDesc(_)
SortDesc(seq) ==
    IF seq = <<>> THEN <<>>
    ELSE InsertDesc(SortDesc(SubSeq(seq, 1, Len(seq) - 1)), seq[Len(seq)])

\* the id and score FAISS gives a slot that has no match
Sentinel == [id |-> -1, score |-> -(2 * Unit * Unit)]

\* FaissVectorStore.search for one query vector: the k best entries by
\* descending inner product, missing slots filled with the sentinel.  FAISS
\* leaves the order of equal scores open: ties is "first" (insertion order)
\* or "last" (the reverse).
VSearch(ix, qvec, k, ties) ==
    LET scored == [i \in DOMAIN ix |->
                      [id |-> ix[i].id, score |-> Dot(qvec, ix[i].vec)]]
        ranked == SortDesc(IF ties = "first" THEN scored ELSE Reverse(scored))
    IN  [i \in 1..k |-> IF i <= Len(ranked) THEN ranked[i] ELSE Sentinel]

\* the subject test of both searches: subject is "" when none is given
SubjectOk(meta, subject) ==
    subject = "" \/ Lower(DictGet(meta, "subject", "")) = Lower(subject)

\* whether the loop of search_similarity (lines 404-426) appends candidate
\* cand: it is a real slot, its row exists, its subject passes
SimKeeps(rows, cand, subject) ==
    /\ cand.id # -1
    /\ DocGet(rows, cand.id) # None
    /\ SubjectOk(DocGet(rows, cand.id)[1].metadata, subject)

\* A plausible slip: no more than k candidates are fetched with a filter
FetchK_k(k, subject) == k

\* fetch_k = max(k * 10, 100) if subject else k (line 399)
FetchK(k, subject) == IF subject # "" THEN Max(k * 10, 100) ELSE k

\* FaissRAG.search_similarity: <<id, score>> records (content and metadata
\* are those of the row).  The loop appends the candidates it keeps, in
\* order, and breaks once len(results) >= k.
search_similarity(rows, ix, query, k, subject, ties) ==
    LET q_emb == normalize_embeddings(Embed(query))
        fetch_k == FetchK(k, subject)
        cands == VSearch(ix, q_emb, fetch_k, ties)
        kept == SelectSeq(cands, LAMBDA cand : SimKeeps(rows, cand, subject))
    IN  SubSeq(kept, 1, Min(Max(k, 1), Len(kept)))

\* the tokens the FTS5 tokenizer (porter over unicode61) makes of a string
\* of the model's metadata: lower case, split at non-alphanumerics
StrTokens(str) ==
    CASE str = "Art" -> {"art"}
      [] str = "a.txt" -> {"a", "txt"}
      [] str = "x.bin" -> {"x", "bin"}
      [] str = "source_path" -> {"source", "path"}
      [] str = "chunk_index" -> {"chunk", "index"}
      [] OTHER -> {str}

\* the token of a small integer value
IntToken(n) ==
    CASE n = 0 -> "0" [] n = 1 -> "1" [] n = 2 -> "2" [] n = 3 -> "3"
      [] OTHER -> "n"

\* the tokens of one row of docs_fts: a text is a sequence of words, the
\* metadata column holds the serialized mapping
RowTokens(r) ==
    {r.content[i] : i \in DOMAIN r.content}
    \cup UNION {StrTokens(r.metadata[i][1]) \cup
                (IF KeyType[r.metadata[i][1]] = "int"
                 THEN {IntToken(r.metadata[i][2])}
                 ELSE StrTokens(r.metadata[i][2])) :
                   i \in DOMAIN r.metadata}

\* docs_fts MATCH query: every word of the query occurs in the row
Matches(r, query) ==
    \A i \in DOMAIN query : query[i] \in RowTokens(r)

\* the loop of DocumentStore.search_keyword (lines 139-145)
RECURSIVE KwLoop(_, _, _, _, _)
KwLoop(rows, i, k, subject, results) ==
    IF i > Len(rows) THEN results
    ELSE IF ~SubjectOk(JsonLoads(rows[i].metadata), subject)
         THEN KwLoop(rows, i + 1, k, subject, results)
         ELSE LET r == Append(results, [id |-> rows[i].rowid])
              IN  IF Len(r) >= k THEN r
                  ELSE KwLoop(rows, i + 1, k, subject, r)

\* DocumentStore.search_keyword: the matching rows in rowid order (FTS5's
\* order without ORDER BY), LIMIT k * 5, filtered by subject, cut at k
search_keyword(fts, query, k, subject) ==
    LET hits == SelectSeq(fts, LAMBDA r : Matches(r, query))
        rows == SubSeq(hits, 1, Min(k * 5, Len(hits)))
    IN  KwLoop(rows, 1, k, subject, <<>>)

IdsOf(results) == [i \in DOMAIN results |-> results[i].id]

\* position of doc_id in a result list, 0 when it is not there
PosOf(results, doc_id) ==
    IF \E i \in DOMAIN results : results[i].id = doc_id
    THEN CHOOSE i \in DOMAIN results :
             /\ results[i].id = doc_id
             /\ \A j \in DOMAIN results : results[j].id = doc_id => i <= j
    ELSE 0

\* merged[did] = entry: an existing key keeps its place in the dict's
\* insertion order, a new key goes last
DictPut(merged, entry) ==
    IF PosOf(merged, entry.id) = 0 THEN Append(merged, entry)
    ELSE [merged EXCEPT ![PosOf(merged, entry.id)] = entry]

\* the first loop over merged of hybrid_search (lines 450-451)
RECURSIVE MergeSemantic(_, _, _)
MergeSemantic(semantic, i, merged) ==
    IF i > Len(semantic) THEN merged
    ELSE MergeSemantic(semantic, i + 1,
             DictPut(merged, [id |-> semantic[i].id,
                              semantic |-> semantic[i].score,
                              keyword |-> 0]))

\* kw_scores[id] = 1.0 / (1 + rank) (lines 445-447), over KwScale
KwScore(rank) == KwScale \div (1 + rank)

\* the second loop over merged of hybrid_search (lines 453-458)
RECURSIVE MergeKeyword(_, _, _)
MergeKeyword(keyword, i, merged) ==
    IF i > Len(keyword) THEN merged
    ELSE LET did == keyword[i].id
             at == PosOf(merged, did)
         IN  MergeKeyword(keyword, i + 1,
                 IF at # 0
                 THEN [merged EXCEPT ![at].keyword = KwScore(i - 1)]
                 ELSE Append(merged, [id |-> did, semantic |-> 0,
                                      keyword |-> KwScore(i - 1)]))

\* final = alpha * s_sem + (1 - alpha) * s_kw (line 464), over HybridScale
FinalScore(alpha_num, s_sem, s_kw) ==
    alpha_num * s_sem * KwScale + (AlphaDen - alpha_num) * s_kw * Unit * Unit

\* FaissRAG.hybrid_search: records of id, final score and its two components
hybrid_search(rows, fts, ix, query, k, alpha_num, subject, ties) ==
    LET semantic == search_similarity(rows, ix, query, k, subject, ties)
        keyword == search_keyword(fts, query, k, subject)
        merged == MergeKeyword(keyword, 1, MergeSemantic(semantic, 1, <<>>))
        results == [i \in DOMAIN merged |->
                       [id |-> merged[i].id,
                        score |-> FinalScore(alpha_num, merged[i].semantic,
                                             merged[i].keyword),
                        semantic |-> merged[i].semantic,
                        keyword |-> merged[i].keyword]]
        sorted == SortDesc(results)
    IN  SubSeq(sorted, 1, Min(k, Len(sorted)))

VARIABLES
    documents,    \* table documents(id, content, metadata), persisted
    docs_fts,     \* table docs_fts(rowid, content, metadata), persisted
    conn,         \* whether a connection to the database is open
    st_opens,     \* store specification: times the database was opened
    issued,       \* store specification: <<id, session>> of every add
    st_ret,       \* store specification: outcome of the last call
    alive,        \* whether a FaissRAG instance is constructed and running
    index,        \* FaissVectorStore.index of the running engine
    index_file,   \* the persisted index file
    console,      \* what _init_index of the running process printed
    call,         \* each caller's ingestion call: position and locals
    s_ret,        \* search specification: the last search and its result
    ct_pc,        \* chunker specification: "call" before, "done" after the call
    ct_text,      \* its argument text
    ct_size,      \* its argument size
    ct_overlap,   \* its argument overlap
    ct_chunks     \* its result

ct_vars == <<ct_pc, ct_text, ct_size, ct_overlap, ct_chunks>>

st_vars == <<documents, docs_fts, conn, st_opens, issued, st_ret>>

en_vars == <<alive, index, index_file, console, call>>

se_vars == <<s_ret>>

vars == <<st_vars, en_vars, se_vars, ct_vars>>

(***************************************************************************)
(* The chunker specification: every text up to MaxTextLen, every           *)
(* 0 <= overlap < size <= MaxSize, one call of chunk_text.                 *)
(***************************************************************************)
NoRet == [op |-> "none"]

StoreIdle ==
    /\ st_opens = 0 /\ issued = <<>> /\ st_ret = NoRet

DbInit ==
    /\ documents = <<>> /\ docs_fts = <<>> /\ conn = FALSE

EngineIdle ==
    /\ alive = FALSE /\ index = <<>> /\ index_file = AbsentFile
    /\ console = {} /\ call = [c \in Callers |-> IdleCall]

SearchIdle == s_ret = NoRet

ChunkIdle ==
    /\ ct_pc = "idle" /\ ct_text = <<>> /\ ct_size = 1 /\ ct_overlap = 0
    /\ ct_chunks = <<>>

ChunkInit ==
    /\ DbInit /\ StoreIdle /\ EngineIdle /\ SearchIdle
    /\ ct_pc = "call"
    /\ ct_text \in SeqsUpTo(Alphabet, MaxTextLen)
    /\ ct_size \in 1..MaxSize
    /\ ct_overlap \in 0..(ct_size - 1)
    /\ ct_chunks = <<>>

ChunkCall ==
    /\ ct_pc = "call"
    /\ ct_chunks' = chunk_text(ct_text, ct_size, ct_overlap)
    /\ ct_pc' = "done"
    /\ UNCHANGED <<ct_text, ct_size, ct_overlap, st_vars, en_vars, se_vars>>

ChunkNext == ChunkCall

ChunkSpec == ChunkInit /\ [][ChunkNext]_vars

(***************************************************************************)
(* The store specification: DocumentStore alone, opened, used and closed   *)
(* over one persisted database.                                            *)
(***************************************************************************)
Contents == {<<"a">>, <<"b">>}

StoreMetas ==
    {None, Some(EmptyDict), Some([subject |-> "Art"]),
     Some([subject |-> "Art", tags |-> "set()"])}

StoreInit == DbInit /\ StoreIdle /\ EngineIdle /\ SearchIdle /\ ChunkIdle

\* DocumentStore.__init__: connect, CREATE TABLE IF NOT EXISTS
StoreOpen ==
    /\ ~conn
    /\ st_opens < MaxOpens
    /\ conn' = TRUE
    /\ st_opens' = st_opens + 1
    /\ st_ret' = NoRet
    /\ UNCHANGED <<documents, docs_fts, issued, en_vars, se_vars, ct_vars>>

\* DocumentStore.close
StoreClose ==
    /\ conn
    /\ conn' = FALSE
    /\ st_ret' = NoRet
    /\ UNCHANGED <<documents, docs_fts, st_opens, issued, en_vars, se_vars, ct_vars>>

\* DocumentStore.add(content, metadata)
StoreAdd(content, metadata) ==
    /\ conn
    /\ Len(documents) < MaxAdds
    /\ IF AddRaises(metadata)
       THEN /\ st_ret' = [op |-> "add", raised |-> "TypeError",
                          arg |-> metadata]
            /\ UNCHANGED <<documents, docs_fts, issued>>
       ELSE LET row == AddRow(documents, content, metadata)
            IN  /\ documents' = Append(documents, row)
                /\ docs_fts' = Append(docs_fts,
                       [rowid |-> row.id, content |-> row.content,
                        metadata |-> row.metadata])
                /\ issued' = Append(issued, <<row.id, st_opens>>)
                /\ st_ret' = [op |-> "add", raised |-> "", arg |-> metadata,
                              id |-> row.id]
    /\ UNCHANGED <<conn, st_opens, en_vars, se_vars, ct_vars>>

StoreNext ==
    \/ StoreOpen
    \/ StoreClose
    \/ \E content \in Contents, metadata \in StoreMetas :
           StoreAdd(content, metadata)

StoreSpec == StoreInit /\ [][StoreNext]_vars

(***************************************************************************)
(* The engine specification: one FaissRAG over the persisted database and  *)
(* index file.  An ingestion call is a sequence of steps, so that the      *)
(* process can die between any two of them; the database is never deleted. *)
(***************************************************************************)
SetCall(c, cl) == call' = [call EXCEPT ![c] = cl]

\* no other caller's ingestion is running
Serialized(c) == \A d \in Callers \ {c} : call[d].pc \in Rest

\* FaissRAG.__init__: open the store, load or create the index
Construct ==
    /\ ~alive
    /\ alive' = TRUE
    /\ conn' = TRUE
    /\ index' = InitIndex(index_file).index
    /\ console' = InitIndex(index_file).printed
    /\ call' = [c \in Callers |-> IdleCall]
    /\ UNCHANGED <<documents, docs_fts, index_file, st_opens, issued, st_ret,
                   se_vars, ct_vars>>

\* FaissRAG.close, after which the instance is dropped
Close ==
    /\ alive
    /\ \A c \in Callers : call[c].pc \in Rest
    /\ alive' = FALSE
    /\ conn' = FALSE
    /\ index' = <<>>
    /\ console' = {}
    /\ call' = [c \in Callers |-> IdleCall]
    /\ s_ret' = NoRet
    /\ UNCHANGED <<documents, docs_fts, index_file, st_opens, issued, st_ret,
                   ct_vars>>

\* A plausible slip: the rows of a call that was running are rolled back
Crash_rollback ==
    LET lost == UNION {{call[c].ids[j] : j \in DOMAIN call[c].ids} :
                          c \in {d \in Callers : call[d].pc \notin Rest}}
    IN  /\ alive
        /\ alive' = FALSE
        /\ conn' = FALSE
        /\ index' = <<>>
        /\ console' = {}
        /\ call' = [c \in Callers |-> IdleCall]
        /\ index_file' = index_file
        /\ documents' = SelectSeq(documents, LAMBDA r : r.id \notin lost)
        /\ docs_fts' = SelectSeq(docs_fts, LAMBDA r : r.rowid \notin lost)
        /\ s_ret' = NoRet
        /\ UNCHANGED <<st_opens, issued, st_ret, ct_vars>>

\* the process dies: committed rows and the index file survive; a file that
\* was being written may be left truncated
Crash ==
    /\ alive
    /\ alive' = FALSE
    /\ conn' = FALSE
    /\ index' = <<>>
    /\ console' = {}
    /\ call' = [c \in Callers |-> IdleCall]
    /\ \/ index_file' = index_file
       \/ /\ \E c \in Callers : call[c].pc = "write"
          /\ index_file' = CorruptFile
    /\ s_ret' = NoRet
    /\ UNCHANGED <<documents, docs_fts, st_opens, issued, st_ret, ct_vars>>

\* between two runs the index file is deleted, damaged or replaced by an
\* index of another kind
DamageIndexFile(file) ==
    /\ ~alive
    /\ index_file # file
    /\ index_file' = file
    /\ UNCHANGED <<documents, docs_fts, conn, alive, index, console, call,
                   st_opens, issued, st_ret, se_vars, ct_vars>>

\* add_files is called: line 327
AddFilesStart(c, paths, metadata) ==
    /\ alive
    /\ call[c].pc \in Rest
    /\ Len(documents) + NewRows(paths) <= MaxDocs
    /\ SetCall(c, [IdleCall EXCEPT !.pc = "extract", !.op = "add_files",
                       !.arg_paths = paths, !.metadata = metadata,
                       !.paths = paths])
    /\ s_ret' = NoRet
    /\ UNCHANGED <<st_vars, alive, index, index_file, console, ct_vars>>

\* add_files, head of the loop over paths: lines 328-340
Extract(c) ==
    /\ alive
    /\ call[c].pc = "extract"
    /\ LET cl == call[c] IN
       IF cl.paths = <<>>
       THEN /\ SetCall(c, [cl EXCEPT !.pc = "index"])
            /\ UNCHANGED console
       ELSE LET got == from_file(cl.paths[1]) IN
            IF ~got.ok
            THEN /\ SetCall(c, OnExtractError(cl))
                 /\ UNCHANGED console
            ELSE LET chunks == chunk_text(got.text, ChunkSize, ChunkOverlap)
                 IN  /\ SetCall(c,
                            IF chunks = <<>>
                            THEN [cl EXCEPT !.paths = Tail(cl.paths)]
                            ELSE [cl EXCEPT !.pc = "store",
                                     !.base_meta =
                                         BaseMeta(cl.metadata, cl.paths[1]),
                                     !.chunks = chunks, !.i = 0])
                     /\ UNCHANGED console
    /\ UNCHANGED <<st_vars, alive, index, index_file, se_vars, ct_vars>>

\* add_text is called: lines 354-355
AddTextStart(c, text, metadata) ==
    /\ alive
    /\ call[c].pc \in Rest
    /\ Len(documents) + Len(chunk_text(text, ChunkSize, ChunkOverlap))
           <= MaxDocs
    /\ LET chunks == chunk_text(text, ChunkSize, ChunkOverlap) IN
       SetCall(c, [IdleCall EXCEPT
                       !.pc = IF chunks = <<>> THEN "index" ELSE "store",
                       !.op = "add_text", !.arg_text = text,
                       !.metadata = metadata,
                       !.base_meta = CopyOrEmpty(metadata),
                       !.chunks = chunks])
    /\ s_ret' = NoRet
    /\ UNCHANGED <<st_vars, alive, index, index_file, console, ct_vars>>

\* position of a call after its chunk i was stored
AfterChunk(cl, doc_id) ==
    LET done == cl.i + 1 = Len(cl.chunks) IN
    [cl EXCEPT !.ids = Append(cl.ids, doc_id),
               !.i = cl.i + 1,
               !.pc = IF ~done THEN "store"
                      ELSE IF cl.op = "add_files" THEN "extract"
                      ELSE "index",
               !.paths = IF done /\ cl.op = "add_files"
                         THEN Tail(cl.paths) ELSE cl.paths]

\* A plausible slip: the chunks of a call are numbered across its files
ChunkMeta_running(cl) ==
    Some(DictSet(cl.base_meta, "chunk_index", Len(cl.ids)))

\* meta = base_meta.copy(); meta['chunk_index'] = i (lines 343-344, 357-358)
ChunkMeta(cl) == Some(DictSet(cl.base_meta, "chunk_index", cl.i))

\* one pass of the loop over chunks (lines 342-346, 356-360): the chunk is
\* committed to the store, or DocumentStore.add raises
StoreChunk(c) ==
    /\ alive
    /\ call[c].pc = "store"
    /\ LET cl == call[c]
           meta == ChunkMeta(cl)
           chunk == cl.chunks[cl.i + 1]
       IN  IF AddRaises(meta)
           THEN /\ SetCall(c, [cl EXCEPT !.pc = "raised",
                                         !.error = "TypeError"])
                /\ UNCHANGED <<documents, docs_fts>>
           ELSE LET row == AddRow(documents, chunk, meta)
                IN  /\ documents' = Append(documents, row)
                    /\ docs_fts' = Append(docs_fts,
                           [rowid |-> row.id, content |-> row.content,
                            metadata |-> row.metadata])
                    /\ SetCall(c, AfterChunk(cl, row.id))
    /\ UNCHANGED <<conn, st_opens, issued, st_ret, alive, index, index_file,
                   console, se_vars, ct_vars>>

\* _index_new_docs: one batch is embedded, normalized and added (lines
\* 371-376); with no batch left the call goes on to save
IndexBatch(c) ==
    /\ alive
    /\ call[c].pc = "index"
    /\ LET cl == call[c] IN
       IF cl.batches_done >= NumBatches(cl.ids)
       THEN /\ SetCall(c, [cl EXCEPT !.pc = "save"])
            /\ UNCHANGED index
       ELSE /\ index' = index \o
                   BatchEntries(documents, Batch(cl.ids, cl.batches_done))
            /\ SetCall(c, [cl EXCEPT !.batches_done = cl.batches_done + 1])
    /\ UNCHANGED <<st_vars, alive, index_file, console, se_vars, ct_vars>>

\* the embedder fails on a batch: the exception leaves the call
EmbedRaises(c) ==
    /\ alive
    /\ call[c].pc = "index"
    /\ call[c].batches_done < NumBatches(call[c].ids)
    /\ SetCall(c, [call[c] EXCEPT !.pc = "raised", !.error = "EmbedError"])
    /\ UNCHANGED <<st_vars, alive, index, index_file, console, se_vars, ct_vars>>

\* save, first half: faiss.write_index serializes the index
SaveBegin(c) ==
    /\ alive
    /\ call[c].pc = "save"
    /\ SetCall(c, [call[c] EXCEPT !.pc = "write", !.snapshot = index])
    /\ UNCHANGED <<st_vars, alive, index, index_file, console, se_vars, ct_vars>>

\* save, second half: the file is complete, and the call returns ids.  While
\* another call is writing the same file the bytes of the two writes may
\* mix, and the file is then unreadable.
SaveEnd(c) ==
    /\ alive
    /\ call[c].pc = "write"
    /\ \/ index_file' = WrittenFile(call[c].snapshot)
       \/ /\ \E d \in Callers \ {c} : call[d].pc = "write"
          /\ index_file' = CorruptFile
    /\ SetCall(c, [call[c] EXCEPT !.pc = "returned", !.snapshot = <<>>])
    /\ UNCHANGED <<st_vars, alive, index, console, se_vars, ct_vars>>

PathLists == SeqsUpTo(Paths, MaxPaths)

Init == DbInit /\ StoreIdle /\ EngineIdle /\ SearchIdle /\ ChunkIdle

Next ==
    \/ Construct
    \/ Close
    \/ Crash
    \/ \E file \in {AbsentFile, CorruptFile, FlatFile} : DamageIndexFile(file)
    \/ \E c \in SerialCallers, paths \in PathLists, metadata \in EngineMetas :
           Serialized(c) /\ AddFilesStart(c, paths, metadata)
    \/ \E c \in SerialCallers, text \in Texts, metadata \in EngineMetas :
           Serialized(c) /\ AddTextStart(c, text, metadata)
    \/ \E c \in SerialCallers : Serialized(c) /\ Extract(c)
    \/ \E c \in SerialCallers : Serialized(c) /\ StoreChunk(c)
    \/ \E c \in SerialCallers : Serialized(c) /\ IndexBatch(c)
    \/ \E c \in SerialCallers : Serialized(c) /\ EmbedRaises(c)
    \/ \E c \in SerialCallers : Serialized(c) /\ SaveBegin(c)
    \/ \E c \in SerialCallers : Serialized(c) /\ SaveEnd(c)

Spec == Init /\ [][Next]_vars

(***************************************************************************)
(* The search specification: texts with and without a subject are          *)
(* ingested with add_text, the process may die and restart and the index   *)
(* file may be lost, and hybrid_search is called between ingestion calls.  *)
(***************************************************************************)
\* most rows the database holds in a run of the search specification
MaxSearchDocs == 2

SearchTexts == {<<"a">>, <<"a", "a">>, <<"a", "b">>}

SearchMetas == {None, Some([subject |-> "Art"])}

Queries == {<<"a">>, <<"b">>}

\* the subject filters: none, and one that differs from the stored subject
\* in case only
SubjectFilters == {"", "ART"}

\* hybrid_search(query, k, alpha, subject), with the results the two
\* underlying searches give for the same arguments on the same state.  A
\* search changes nothing of the engine, so one search is recorded per state
\* of the engine: s_ret is cleared by the next ingestion call or crash.
HybridSearch(query, k, alpha_num, subject, ties) ==
    /\ alive
    /\ \A c \in Callers : call[c].pc \in Rest
    /\ s_ret = NoRet
    /\ s_ret' =
           [op |-> "hybrid_search", query |-> query, k |-> k,
            alpha_num |-> alpha_num, subject |-> subject,
            result |-> hybrid_search(documents, docs_fts, index, query, k,
                                     alpha_num, subject, ties),
            similarity |-> search_similarity(documents, index, query, k,
                                             subject, ties),
            keyword |-> search_keyword(docs_fts, query, k, subject)]
    /\ UNCHANGED <<st_vars, en_vars, ct_vars>>

\* search_similarity(query, k, subject), between ingestion calls
SimilaritySearch(query, k, subject, ties) ==
    /\ alive
    /\ \A c \in Callers : call[c].pc \in Rest
    /\ s_ret = NoRet
    /\ s_ret' =
           [op |-> "search_similarity", query |-> query, k |-> k,
            subject |-> subject, ties |-> ties,
            result |-> search_similarity(documents, index, query, k, subject,
                                         ties)]
    /\ UNCHANGED <<st_vars, en_vars, ct_vars>>

SearchNext ==
    \/ Construct
    \/ Crash
    \/ DamageIndexFile(AbsentFile)
    \/ \E c \in SerialCallers, text \in SearchTexts, metadata \in SearchMetas :
           /\ Serialized(c)
           /\ Len(documents) + Len(chunk_text(text, ChunkSize, ChunkOverlap))
                  <= MaxSearchDocs
           /\ AddTextStart(c, text, metadata)
    \/ \E c \in SerialCallers : Serialized(c) /\ StoreChunk(c)
    \/ \E c \in SerialCallers : Serialized(c) /\ IndexBatch(c)
    \/ \E c \in SerialCallers : Serialized(c) /\ SaveBegin(c)
    \/ \E c \in SerialCallers : Serialized(c) /\ SaveEnd(c)
    \/ \E query \in Queries, k \in 1..MaxK, alpha_num \in 0..AlphaDen,
          subject \in SubjectFilters, ties \in {"first", "last"} :
           HybridSearch(query, k, alpha_num, subject, ties)
    \/ \E query \in Queries, k \in 1..MaxK, subject \in SubjectFilters,
          ties \in {"first", "last"} :
           SimilaritySearch(query, k, subject, ties)

SearchSpec == Init /\ [][SearchNext]_vars

\* concatenating the first chunk with each later chunk minus its first
\* overlap characters (Python's chunk[overlap:])
RECURSIVE Reconstruct(_, _)
Reconstruct(chunks, overlap) ==
    IF chunks = <<>> THEN <<>>
    ELSE IF Len(chunks) = 1 THEN chunks[1]
    ELSE Reconstruct(SubSeq(chunks, 1, Len(chunks) - 1), overlap)
         \o Slice(chunks[Len(chunks)], overlap, Len(chunks[Len(chunks)]))

\* the last n characters of s equal the first n characters of t
SharesOverlap(s, t, n) ==
    /\ Len(s) >= n
    /\ Len(t) >= n
    /\ SubSeq(s, Len(s) - n + 1, Len(s)) = SubSeq(t, 1, n)

\* C4 as stated: a non-empty text yields exactly
\* ceil((len(T) - overlap) / (size - overlap)) chunks, and a text shorter
\* than size yields exactly one chunk.
C4_AsStated ==
    (ct_pc = "done" /\ ct_text # <<>>) =>
        /\ Len(ct_chunks) =
             CeilDiv(Len(ct_text) - ct_overlap, ct_size - ct_overlap)
        /\ (Len(ct_text) < ct_size => Len(ct_chunks) = 1)

\* C4 (amended): a non-empty text yields exactly
\* ceil(len(T) / (size - overlap)) chunks, one per window start below
\* len(T); in particular a text no longer than size - overlap yields exactly
\* one chunk.
C4_ChunkCount ==
    (ct_pc = "done" /\ ct_text # <<>>) =>
        /\ Len(ct_chunks) = CeilDiv(Len(ct_text), ct_size - ct_overlap)
        /\ (Len(ct_text) <= ct_size - ct_overlap => Len(ct_chunks) = 1)

\* a text longer than size - overlap but shorter than size has been chunked
\* with a positive overlap: the case where the two counts differ
C4_Witness ==
    /\ ct_pc = "done"
    /\ ct_overlap > 0
    /\ Len(ct_text) > ct_size - ct_overlap
    /\ Len(ct_text) < ct_size
    /\ Len(ct_chunks) = 2

\* C5 as stated: chunk_text terminates, the empty text yields no chunk,
\* every pair of consecutive chunks other than a pair ending in the last
\* chunk shares exactly overlap characters, and the chunks reconstruct T.
C5_AsStated ==
    ct_pc = "done" =>
        /\ (ct_text = <<>> => ct_chunks = <<>>)
        /\ \A i \in 1..(Len(ct_chunks) - 2) :
               SharesOverlap(ct_chunks[i], ct_chunks[i + 1], ct_overlap)
        /\ Reconstruct(ct_chunks, ct_overlap) = ct_text

\* C5 (amended): chunk_text terminates after at most len(T) windows, the
\* empty text yields no chunk, every pair of consecutive chunks whose first
\* chunk has the full length size shares exactly overlap characters (when
\* 2 * overlap <= size that is every pair other than one ending in the last
\* chunk), and the chunks reconstruct T.
C5_OverlapReconstruct ==
    ct_pc = "done" =>
        /\ Len(ct_chunks) <= Len(ct_text)
        /\ (ct_text = <<>> => ct_chunks = <<>>)
        /\ \A i \in 1..(Len(ct_chunks) - 1) :
               Len(ct_chunks[i]) = ct_size =>
                   SharesOverlap(ct_chunks[i], ct_chunks[i + 1], ct_overlap)
        /\ (2 * ct_overlap <= ct_size =>
               \A i \in 1..(Len(ct_chunks) - 2) :
                   SharesOverlap(ct_chunks[i], ct_chunks[i + 1], ct_overlap))
        /\ Reconstruct(ct_chunks, ct_overlap) = ct_text

\* a text has been cut into at least three chunks with an overlap larger
\* than half the size, so that a chunk before the last is already short
C5_Witness ==
    /\ ct_pc = "done"
    /\ 2 * ct_overlap > ct_size
    /\ Len(ct_chunks) >= 3
    /\ Len(ct_chunks[Len(ct_chunks) - 1]) < ct_size
    /\ ct_text # [i \in 1..Len(ct_text) |-> "a"]

\* C3: each DocumentStore.add returns an id strictly greater than every id
\* returned before it, also across closing and reopening the database, and
\* every id ever returned is retrievable with get (so two adds of identical
\* content give two distinct retrievable ids).
C3_IdsStrictlyIncrease ==
    /\ \A i, j \in DOMAIN issued : i < j => issued[i][1] < issued[j][1]
    /\ \A i \in DOMAIN issued :
           /\ DocGet(documents, issued[i][1]) # None
           /\ DocGet(documents, issued[i][1])[1].id = issued[i][1]
    /\ (st_ret.op = "add" /\ st_ret.raised = "") =>
           /\ issued # <<>>
           /\ issued[Len(issued)][1] = st_ret.id

\* identical content has been added in two different sessions of the
\* database, and both rows are there
C3_Witness ==
    \E i, j \in DOMAIN issued :
        /\ i < j
        /\ issued[i][2] < issued[j][2]
        /\ DocGet(documents, issued[i][1]) # None
        /\ DocGet(documents, issued[j][1]) # None
        /\ DocGet(documents, issued[i][1])[1].content =
               DocGet(documents, issued[j][1])[1].content
        /\ DocGet(documents, issued[i][1])[1].metadata =
               DocGet(documents, issued[j][1])[1].metadata

\* the metadata argument is absent, or holds a value json cannot serialize
Degenerate(metadata) ==
    \/ metadata = None
    \/ ~JsonSerializable(metadata[1])

\* C10 as stated: DocumentStore.add never fails because of its metadata
\* argument; for absent or non-serializable metadata the row is inserted, an
\* id is returned and the stored metadata is the empty mapping.
C10_AsStated ==
    st_ret.op = "add" =>
        /\ st_ret.raised = ""
        /\ Degenerate(st_ret.arg) =>
               /\ DocGet(documents, st_ret.id) # None
               /\ DocGet(documents, st_ret.id)[1].metadata = EmptyDict

\* C1: in every reachable state of ingestion calls, crashes at any step and
\* restarts that reload the persisted files, every id held by the in-memory
\* index, by the persisted index file, or by an index snapshot being written
\* to it, is the id of a row of the content store.
C1_IndexIdsInStore ==
    /\ IndexIds(index) \subseteq Ids(documents)
    /\ IndexIds(index_file.entries) \subseteq Ids(documents)
    /\ \A c \in Callers : IndexIds(call[c].snapshot) \subseteq Ids(documents)

\* a restarted engine holds a loaded, non-empty index beside rows that an
\* aborted ingestion left without a vector, and has ingested again
C1_Witness ==
    /\ alive
    /\ call["c1"].pc = "returned"
    /\ call["c1"].ids # <<>>
    /\ index_file.kind = "idmap"
    /\ Len(index_file.entries) > Len(call["c1"].ids)
    /\ Ids(documents) \ IndexIds(index) # {}
    /\ \E i \in Ids(documents) \ IndexIds(index) : i < call["c1"].ids[1]

\* the ids a call returned are pairwise distinct
Distinct(ids) == \A i, j \in DOMAIN ids : i # j => ids[i] # ids[j]

\* C2: when add_files or add_text has returned normally with id list L
\* (calls serialized), every id of L has exactly one entry in the in-memory
\* index and exactly one in the index file that call wrote, and an engine
\* constructed from that file holds exactly one vector for it.
C2_ReturnedIdsEmbeddedOnce ==
    \A c \in Callers :
        call[c].pc = "returned" =>
            /\ Distinct(call[c].ids)
            /\ index_file.kind = "idmap"
            /\ \A j \in DOMAIN call[c].ids :
                   /\ Count(index, call[c].ids[j]) = 1
                   /\ Count(index_file.entries, call[c].ids[j]) = 1
                   /\ Count(InitIndex(index_file).index, call[c].ids[j]) = 1

\* a call that needed two batches has returned on an engine whose index
\* already held vectors of an earlier call
C2_Witness ==
    /\ alive
    /\ call["c1"].pc = "returned"
    /\ Len(call["c1"].ids) > BatchSize
    /\ Len(call["c1"].ids) % BatchSize # 0
    /\ Len(index) > Len(call["c1"].ids)

\* the chunks add_files is to store for a list of paths: those of the files
\* whose extraction succeeds, in order, each with its path and chunk index
RECURSIVE ExpectedChunks(_)
ExpectedChunks(paths) ==
    IF paths = <<>> THEN <<>>
    ELSE LET got == from_file(paths[1])
             chunks == chunk_text(got.text, ChunkSize, ChunkOverlap)
         IN  (IF got.ok
              THEN [j \in 1..Len(chunks) |->
                       [path |-> paths[1], i |-> j - 1, chunk |-> chunks[j]]]
              ELSE <<>>)
             \o ExpectedChunks(Tail(paths))

\* C9: a file whose extraction fails does not abort add_files and
\* contributes no row, no vector and no returned id; when the call returns,
\* the chunks of every other file of the list, before and after it, are
\* stored under the returned ids, embedded, and the index is saved.
C9_FailedFileSkipped ==
    /\ \A c \in Callers :
           (call[c].op = "add_files" /\ call[c].pc = "raised") =>
               call[c].error \in {"TypeError", "EmbedError"}
    /\ \A c \in Callers :
           (call[c].op = "add_files" /\ call[c].pc = "returned") =>
               LET exp == ExpectedChunks(call[c].arg_paths)
                   ids == call[c].ids
               IN  /\ Len(ids) = Len(exp)
                   /\ index_file = WrittenFile(index)
                   /\ \A j \in DOMAIN ids :
                          /\ DocGet(documents, ids[j]) # None
                          /\ DocGet(documents, ids[j])[1].content =
                                 exp[j].chunk
                          /\ DocGet(documents, ids[j])[1].metadata
                                 .source_path = exp[j].path
                          /\ DocGet(documents, ids[j])[1].metadata
                                 .chunk_index = exp[j].i
                          /\ Count(index, ids[j]) = 1
    /\ \A r \in DOMAIN documents :
           "source_path" \in DOMAIN JsonLoads(documents[r].metadata) =>
               from_file(JsonLoads(documents[r].metadata).source_path).ok

\* add_files has returned for a list in which a file that cannot be
\* extracted stands between two files that can
C9_Witness ==
    /\ call["c1"].op = "add_files"
    /\ call["c1"].pc = "returned"
    /\ Len(call["c1"].arg_paths) = 3
    /\ from_file(call["c1"].arg_paths[1]).ok
    /\ ~from_file(call["c1"].arg_paths[2]).ok
    /\ from_file(call["c1"].arg_paths[3]).ok
    /\ Len(call["c1"].ids) = 4

\* the first n elements of seq
Take(seq, n) == SubSeq(seq, 1, Min(n, Len(seq)))

\* the semantic component of doc_id in the recorded search: its score in
\* the similarity results, 0 when it is not among them
SemOf(doc_id) ==
    IF PosOf(s_ret.similarity, doc_id) = 0 THEN 0
    ELSE s_ret.similarity[PosOf(s_ret.similarity, doc_id)].score

\* the keyword component of doc_id in the recorded search: 1 / (1 + rank)
\* over KwScale, 0 when it is not among the keyword results
KwOf(doc_id) ==
    IF PosOf(s_ret.keyword, doc_id) = 0 THEN 0
    ELSE KwScore(PosOf(s_ret.keyword, doc_id) - 1)

\* C6 as stated: hybrid_search returns at most k results, each id at most
\* once, each with final score alpha * semantic + (1 - alpha) * keyword
\* (a missing component is 0, keyword is 1 / (1 + rank)), in descending
\* order of final score, and two results of equal final score appear in
\* ascending order of id.
C6_AsStated ==
    s_ret.op = "hybrid_search" =>
        LET res == s_ret.result
        IN  /\ Len(res) <= s_ret.k
            /\ Distinct(IdsOf(res))
            /\ \A i \in DOMAIN res :
                   res[i].score = FinalScore(s_ret.alpha_num,
                                             SemOf(res[i].id), KwOf(res[i].id))
            /\ \A i, j \in DOMAIN res :
                   i < j => res[i].score >= res[j].score
            /\ \A i, j \in DOMAIN res :
                   (i < j /\ res[i].score = res[j].score) =>
                       res[i].id < res[j].id

\* the ids of the results whose id is not among others
IdsNotIn(results, others) ==
    IdsOf(SelectSeq(results, LAMBDA r : PosOf(others, r.id) = 0))

\* C7 as stated: hybrid_search with alpha = 1 returns the same ordered id
\* sequence as search_similarity(query, k, subject), and with alpha = 0 the
\* same ordered id sequence as search_keyword(query, k, subject).
C7_AsStated ==
    s_ret.op = "hybrid_search" =>
        /\ s_ret.alpha_num = AlphaDen =>
               IdsOf(s_ret.result) = IdsOf(s_ret.similarity)
        /\ s_ret.alpha_num = 0 =>
               IdsOf(s_ret.result) = IdsOf(s_ret.keyword)

\* C7 (amended): with alpha = 1 hybrid_search returns the first k ids of:
\* the search_similarity results of non-negative score in their order, then
\* the search_keyword results that are not similarity results, then the
\* similarity results of negative score; that is search_similarity's
\* sequence when it holds k results of non-negative score.  With alpha = 0
\* it returns the first k ids of: the search_keyword results in their
\* order, then the similarity results that are not keyword results; that is
\* search_keyword's sequence when it holds k results.
C7_BoundaryLaws ==
    s_ret.op = "hybrid_search" =>
        LET sim == s_ret.similarity
            kw == s_ret.keyword
            res == IdsOf(s_ret.result)
        IN  /\ s_ret.alpha_num = AlphaDen =>
                   /\ res = Take(
                          IdsOf(SelectSeq(sim, LAMBDA r : r.score >= 0))
                          \o IdsNotIn(kw, sim)
                          \o IdsOf(SelectSeq(sim, LAMBDA r : r.score < 0)),
                          s_ret.k)
                   /\ (Len(sim) = s_ret.k
                       /\ \A i \in DOMAIN sim : sim[i].score >= 0) =>
                          res = IdsOf(sim)
            /\ s_ret.alpha_num = 0 =>
                   /\ res = Take(IdsOf(kw) \o IdsNotIn(sim, kw), s_ret.k)
                   /\ Len(kw) = s_ret.k => res = IdsOf(kw)

\* a search with alpha = 1 has put a keyword result before a similarity
\* result of negative score, and so differs from search_similarity
C7_Witness ==
    /\ s_ret.op = "hybrid_search"
    /\ s_ret.alpha_num = AlphaDen
    /\ s_ret.similarity # <<>>
    /\ s_ret.keyword # <<>>
    /\ IdsOf(s_ret.result) # IdsOf(s_ret.similarity)
    /\ \E i \in DOMAIN s_ret.result : s_ret.result[i].semantic < 0

\* C8 as stated: constructing the engine over a content store that holds
\* rows when the index file is absent, corrupt or not an IndexIDMap does not
\* fail: the engine starts with an empty index and reports the degradation,
\* the rows persist, and search_similarity returns nothing for every query.
C8_AsStated ==
    [][(/\ ~alive
        /\ alive'
        /\ documents # <<>>
        /\ index_file.kind \in {"absent", "corrupt", "flat"}) =>
           /\ index' = <<>>
           /\ LoadFailed \in console'
           /\ documents' = documents
           /\ \A query \in Queries, k \in 1..MaxK,
                 subject \in SubjectFilters, ties \in {"first", "last"} :
                  search_similarity(documents', index', query, k, subject,
                                    ties) = <<>>]_vars

(***************************************************************************)
(* DocumentStore.list_documents (src/rag.py:148-184) and the listing       *)
(* specification: files and texts are ingested under several subjects and  *)
(* file names, and list_documents is called between ingestion calls.       *)
(***************************************************************************)
\* os.path.splitext(filename)[1].replace('.', '') if filename != 'unknown'
\* else 'txt'
FileType(filename) ==
    IF filename = "unknown" THEN "txt"
    ELSE CASE Ext(filename) = ".txt" -> "txt"
           [] Ext(filename) = ".bin" -> "bin"
           [] OTHER -> ""

\* the key of files_map for a row: lines 169-170
GroupKey(meta) ==
    DictGet(meta, "source_path", DictGet(meta, "filename", "unknown"))

\* files_map[source_path] = {...}: lines 174-182
ListEntry(row_id, meta) ==
    [key |-> GroupKey(meta),
     id |-> row_id,
     filename |-> DictGet(meta, "filename", "unknown"),
     subject |-> DictGet(meta, "subject", "Uncategorized"),
     type |-> FileType(DictGet(meta, "filename", "unknown")),
     size |-> "Unknown",
     date |-> "Unknown",
     metadata |-> meta]

\* A plausible slip: a later chunk of a group replaces its entry
RECURSIVE ListLoop_last(_, _, _, _)
ListLoop_last(rows, i, subject, files_map) ==
    IF i > Len(rows) THEN files_map
    ELSE LET meta == JsonLoads(rows[i].metadata)
             at == {j \in DOMAIN files_map : files_map[j].key = GroupKey(meta)}
         IN  IF ~SubjectOk(meta, subject)
             THEN ListLoop_last(rows, i + 1, subject, files_map)
             ELSE ListLoop_last(rows, i + 1, subject,
                      IF at = {}
                      THEN Append(files_map, ListEntry(rows[i].id, meta))
                      ELSE [j \in DOMAIN files_map |->
                               IF j \in at THEN ListEntry(rows[i].id, meta)
                               ELSE files_map[j]])

\* the loop over rows of list_documents (lines 160-182); files_map is the
\* dict in insertion order
RECURSIVE ListLoop(_, _, _, _)
ListLoop(rows, i, subject, files_map) ==
    IF i > Len(rows) THEN files_map
    ELSE LET meta == JsonLoads(rows[i].metadata)
         IN  IF \/ ~SubjectOk(meta, subject)
                \/ \E j \in DOMAIN files_map :
                       files_map[j].key = GroupKey(meta)
             THEN ListLoop(rows, i + 1, subject, files_map)
             ELSE ListLoop(rows, i + 1, subject,
                           Append(files_map, ListEntry(rows[i].id, meta)))

\* DocumentStore.list_documents: list(files_map.values())
list_documents(rows, subject) == ListLoop(rows, 1, subject, <<>>)

ListPathLists == {<<"a.txt">>, <<"x.bin", "a.txt">>}

ListTexts == {<<"a">>}

ListMetas ==
    {None, Some([subject |-> "Art"]), Some([subject |-> "Bio"]),
     Some([filename |-> "a.txt"])}

\* the subject filters of list_documents: none, and two that differ from
\* the stored subjects in case only
ListSubjects == {"", "ART", "bio"}

\* list_documents(subject), between ingestion calls
ListDocuments(subject) ==
    /\ alive
    /\ \A c \in Callers : call[c].pc \in Rest
    /\ s_ret = NoRet
    /\ s_ret' = [op |-> "list_documents", subject |-> subject,
                 result |-> list_documents(documents, subject)]
    /\ UNCHANGED <<st_vars, en_vars, ct_vars>>

ListNext ==
    \/ Construct
    \/ \E c \in SerialCallers, paths \in ListPathLists, metadata \in ListMetas :
           Serialized(c) /\ AddFilesStart(c, paths, metadata)
    \/ \E c \in SerialCallers, text \in ListTexts, metadata \in ListMetas :
           Serialized(c) /\ AddTextStart(c, text, metadata)
    \/ \E c \in SerialCallers : Serialized(c) /\ Extract(c)
    \/ \E c \in SerialCallers : Serialized(c) /\ StoreChunk(c)
    \/ \E c \in SerialCallers : Serialized(c) /\ IndexBatch(c)
    \/ \E c \in SerialCallers : Serialized(c) /\ SaveBegin(c)
    \/ \E c \in SerialCallers : Serialized(c) /\ SaveEnd(c)
    \/ \E subject \in ListSubjects : ListDocuments(subject)

ListSpec == Init /\ [][ListNext]_vars

\* the rows of the store with their metadata parsed
ParsedRows ==
    [i \in DOMAIN documents |->
        [id |-> documents[i].id, meta |-> JsonLoads(documents[i].metadata)]]

\* the smallest id of the rows of the group key that pass the subject filter
FirstOfGroup(key, subject) ==
    CHOOSE r \in {ParsedRows[i] : i \in DOMAIN ParsedRows} :
        /\ GroupKey(r.meta) = key
        /\ SubjectOk(r.meta, subject)
        /\ \A i \in DOMAIN ParsedRows :
               (GroupKey(ParsedRows[i].meta) = key
                /\ SubjectOk(ParsedRows[i].meta, subject)) =>
                   r.id <= ParsedRows[i].id

\* C11: list_documents(subject=S) returns only entries whose metadata
\* subject equals S case-insensitively; list_documents() without a subject
\* returns one entry for every group of rows sharing a source_path (or,
\* without one, a filename, or the name 'unknown' without either), each
\* group once; every entry carries the id and metadata of the first-stored
\* row of its group (with a subject, of the first-stored row that passes).
C11_ListDocuments ==
    s_ret.op = "list_documents" =>
        LET res == s_ret.result
            S == s_ret.subject
        IN  /\ S # "" =>
                   \A i \in DOMAIN res :
                       Lower(DictGet(res[i].metadata, "subject", ""))
                           = Lower(S)
            /\ \A i, j \in DOMAIN res :
                   i # j => GroupKey(res[i].metadata)
                                # GroupKey(res[j].metadata)
            /\ {GroupKey(res[i].metadata) : i \in DOMAIN res}
                   = {GroupKey(ParsedRows[i].meta) :
                          i \in {j \in DOMAIN ParsedRows :
                                     SubjectOk(ParsedRows[j].meta, S)}}
            /\ \A i \in DOMAIN res :
                   LET first == FirstOfGroup(GroupKey(res[i].metadata), S)
                   IN  /\ res[i].id = first.id
                       /\ res[i].metadata = first.meta

\* the store holds a file ingested twice and a text without source_path or
\* filename, and list_documents() has returned one entry for each
C11_Witness ==
    /\ s_ret.op = "list_documents"
    /\ s_ret.subject = ""
    /\ Len(s_ret.result) = 2
    /\ \E i \in DOMAIN s_ret.result :
           GroupKey(s_ret.result[i].metadata) = "unknown"
    /\ \E i \in DOMAIN s_ret.result :
           /\ GroupKey(s_ret.result[i].metadata) = "a.txt"
           /\ Cardinality({j \in DOMAIN ParsedRows :
                  GroupKey(ParsedRows[j].meta) = "a.txt"}) >= 3

\* every entry of the index with its inner product with the query, in the
\* order the index ranks them
FullRanking(query, ties) ==
    VSearch(index, normalize_embeddings(Embed(query)), Len(index), ties)

\* the subject of the row with id doc_id, "" when it has none
SubjectOfRow(doc_id) ==
    DictGet(DocGet(documents, doc_id)[1].metadata, "subject", "")

ConcTexts == {<<"a">>, <<"a", "b", "a">>}

ConcNext ==
    \/ Construct
    \/ \E c \in Callers, text \in ConcTexts : AddTextStart(c, text, None)
    \/ \E c \in Callers : StoreChunk(c)
    \/ \E c \in Callers : IndexBatch(c)
    \/ \E c \in Callers : SaveBegin(c)
    \/ \E c \in Callers : SaveEnd(c)

ConcSpec == Init /\ [][ConcNext]_vars

\* at most one ingestion call is running
SerialNow == Cardinality({c \in Callers : call[c].pc \notin Rest}) <= 1

\* the index file holds a vector for every id of every call that returned
NoDroppedUpdate ==
    \A c \in Callers :
        call[c].pc = "returned" =>
            /\ index_file.kind = "idmap"
            /\ \A j \in DOMAIN call[c].ids :
                   call[c].ids[j] \in IndexIds(index_file.entries)

\* C13: as long as ingestion calls do not overlap, the index file holds a
\* vector for every id of every call that has returned; no run in which the
\* calls are serialized reaches a state with a dropped update.  (That calls
\* which do overlap can reach one is C13_Witness.)
C13_SerializedNoDrop == []SerialNow => []NoDroppedUpdate

\* two overlapping calls have both returned, the in-memory index holds the
\* vectors of both, and the index file, a readable index written by the
\* call that finished last, lacks the vector of a returned id
C13_Witness ==
    /\ \A c \in Callers : call[c].pc = "returned" /\ call[c].ids # <<>>
    /\ \A c \in Callers : \A j \in DOMAIN call[c].ids :
           call[c].ids[j] \in IndexIds(index)
    /\ index_file.kind = "idmap"
    /\ \E c \in Callers : \E j \in DOMAIN call[c].ids :
           call[c].ids[j] \notin IndexIds(index_file.entries)

\* docs_fts holds, row for row, what documents holds
InLockstep(rows, fts) ==
    fts = [i \in DOMAIN rows |->
              [rowid |-> rows[i].id, content |-> rows[i].content,
               metadata |-> rows[i].metadata]]

\* every id of the index ix is the id of a row, and is held once
VectorsHaveRows(ix, rows) ==
    \A i \in DOMAIN ix : ix[i].id \in Ids(rows) /\ Count(ix, ix[i].id) = 1

\* C14: no step of the engine, in particular no crash at any point of an
\* ingestion call and no failure of the embedder or of the store that ends
\* a call, removes or changes a row committed before it (no rollback); after
\* it the full-text table still mirrors the rows and every vector in memory
\* and in the index file belongs to exactly one row, so that the only
\* inconsistency left is rows that have no vector.
C14_NoRollback ==
    [][/\ Len(documents') >= Len(documents)
       /\ SubSeq(documents', 1, Len(documents)) = documents
       /\ InLockstep(documents', docs_fts')
       /\ VectorsHaveRows(index', documents')
       /\ VectorsHaveRows(index_file'.entries, documents')
       /\ \A c \in Callers :
              (call[c].pc \notin Rest /\ call'[c].pc \in {"idle", "raised"}) =>
                  \A j \in DOMAIN call[c].ids :
                      /\ DocGet(documents', call[c].ids[j]) # None
                      /\ DocGet(documents', call[c].ids[j])
                             = DocGet(documents, call[c].ids[j])]_vars

\* the embedder has failed on the second batch of a call: the call raised,
\* its rows are all in the store, the vectors of its first batch are in
\* memory and those of its later rows are missing
C14_Witness ==
    /\ alive
    /\ call["c1"].pc = "raised"
    /\ call["c1"].error = "EmbedError"
    /\ call["c1"].batches_done = 1
    /\ Len(call["c1"].ids) > BatchSize
    /\ \A j \in DOMAIN call["c1"].ids :
           DocGet(documents, call["c1"].ids[j]) # None
    /\ call["c1"].ids[1] \in IndexIds(index)
    /\ call["c1"].ids[Len(call["c1"].ids)] \notin IndexIds(index)

\* the metadata of the row stored under the j-th id of caller c's call
MetaOfId(c, j) == DocGet(documents, call[c].ids[j])[1].metadata

\* the number of chunks add_files makes of the file at path
ChunksOfFile(path) ==
    Len(chunk_text(from_file(path).text, ChunkSize, ChunkOverlap))

\* C15: at every point of an add_text call the rows stored so far carry
\* chunk_index 0, 1, 2, ... in the order of their ids; at every point of an
\* add_files call the first row carries 0 and each later row either
\* continues the numbering of the same file by one, or carries 0 and starts
\* the next file after all chunks of the previous file were stored; when
\* the call has returned the last file is complete too.
C15_ChunkIndexContiguous ==
    \A c \in Callers :
        LET ids == call[c].ids
        IN  /\ call[c].op = "add_text" =>
                   \A j \in DOMAIN ids : MetaOfId(c, j).chunk_index = j - 1
            /\ call[c].op = "add_files" =>
                   /\ ids # <<>> => MetaOfId(c, 1).chunk_index = 0
                   /\ \A j \in 2..Len(ids) :
                          IF MetaOfId(c, j).chunk_index = 0
                          THEN MetaOfId(c, j - 1).chunk_index + 1 =
                                   ChunksOfFile(MetaOfId(c, j - 1).source_path)
                          ELSE /\ MetaOfId(c, j).chunk_index =
                                      MetaOfId(c, j - 1).chunk_index + 1
                               /\ MetaOfId(c, j).source_path =
                                      MetaOfId(c, j - 1).source_path
                   /\ (call[c].pc = "returned" /\ ids # <<>>) =>
                          MetaOfId(c, Len(ids)).chunk_index + 1 =
                              ChunksOfFile(MetaOfId(c, Len(ids)).source_path)

\* add_files has returned for a list that starts with a file that cannot be
\* extracted and then names the same file twice: the numbering 0, 1 was
\* given twice
C15_Witness ==
    /\ call["c1"].op = "add_files"
    /\ call["c1"].pc = "returned"
    /\ call["c1"].arg_paths = <<"x.bin", "a.txt", "a.txt">>
    /\ Len(call["c1"].ids) = 4
    /\ [j \in 1..4 |-> MetaOfId("c1", j).chunk_index] = <<0, 1, 0, 1>>

(***************************************************************************)
(* The persistence specification: one engine at a time over the persisted  *)
(* files; add_text and save are called one after the other, the embedder   *)
(* may fail on any batch, and the engine may be closed and constructed     *)
(* again.                                                                  *)
(***************************************************************************)
PersistTexts == {<<"a">>, <<"a", "b", "a", "b", "a">>}

\* FaissRAG.save is called by the user of the engine: line 386
SaveStart(c) ==
    /\ alive
    /\ call[c].pc \in Rest
    /\ SetCall(c, [IdleCall EXCEPT !.pc = "save", !.op = "save"])
    /\ s_ret' = NoRet
    /\ UNCHANGED <<st_vars, alive, index, index_file, console, ct_vars>>

PersistNext ==
    \/ Construct
    \/ Close
    \/ \E c \in SerialCallers, text \in PersistTexts :
           Serialized(c) /\ AddTextStart(c, text, None)
    \/ \E c \in SerialCallers : Serialized(c) /\ SaveStart(c)
    \/ \E c \in SerialCallers : Serialized(c) /\ StoreChunk(c)
    \/ \E c \in SerialCallers : Serialized(c) /\ IndexBatch(c)
    \/ \E c \in SerialCallers : Serialized(c) /\ EmbedRaises(c)
    \/ \E c \in SerialCallers : Serialized(c) /\ SaveBegin(c)
    \/ \E c \in SerialCallers : Serialized(c) /\ SaveEnd(c)

PersistSpec == Init /\ [][PersistNext]_vars

\* the ids of caller c's call whose batch was added to the index
EmbeddedIds(c) ==
    {call[c].ids[j] :
        j \in 1..Min(call[c].batches_done * BatchSize, Len(call[c].ids))}

\* C16: while an engine lives (calls serialized) the ids of the index file
\* are among the ids of the in-memory index, and the two sets are equal
\* when the last add_files, add_text or save has returned normally; when a
\* call has raised in the embedder the vectors of its earlier batches are
\* in memory and not in the file; and the ids of the file change only in
\* the step that completes a save, which writes the whole in-memory index.
C16_FileWithinMemory ==
    [][/\ alive' =>
              /\ IndexIds(index_file'.entries) \subseteq IndexIds(index')
              /\ \A c \in Callers :
                     /\ call'[c].pc = "returned" =>
                            IndexIds(index_file'.entries) = IndexIds(index')
                     /\ (call'[c].pc = "raised"
                         /\ call'[c].error = "EmbedError") =>
                            /\ EmbeddedIds(c)' \subseteq IndexIds(index')
                            /\ EmbeddedIds(c)'
                                   \cap IndexIds(index_file'.entries) = {}
       /\ IndexIds(index_file'.entries) # IndexIds(index_file.entries) =>
              \E c \in Callers :
                  /\ call[c].pc = "write"
                  /\ call'[c].pc = "returned"
                  /\ index_file' = WrittenFile(index)]_vars

\* the embedder has failed on the second batch of a call made after an
\* earlier call was saved: the file holds the vectors of the earlier call
\* only, the memory also those of the first batch
C16_Witness ==
    /\ alive
    /\ call["c1"].pc = "raised"
    /\ call["c1"].error = "EmbedError"
    /\ call["c1"].batches_done = 1
    /\ index_file.kind = "idmap"
    /\ index_file.entries # <<>>
    /\ EmbeddedIds("c1") # {}
    /\ IndexIds(index) = IndexIds(index_file.entries) \cup EmbeddedIds("c1")
    /\ EmbeddedIds("c1") \cap IndexIds(index_file.entries) = {}


=============================================================================
